---- MODULE Spec2Model ----
(***************************************************************************)
(* The Agora: src/store.js, the in-memory data store mirrored to           *)
(* localStorage (window.AgoraStore).                                       *)
(*                                                                         *)
(* Representation.                                                         *)
(*   - An optional JavaScript value is a sequence of length at most one:   *)
(*     << >> is "undefined" / "no entry", << v >> is the value v.          *)
(*   - A JavaScript string that the code inspects character by character   *)
(*     (the opening argument) is a sequence of one-character strings.      *)
(*   - null is the string Null; an omitted string argument is Undefined.   *)
(*   - Identifiers produced by uid() are the naturals 1, 2, 3, ...;        *)
(*     identifiers a caller makes up are taken from UnknownIds.            *)
(*   - Post and argument fields that no store operation reads (title,      *)
(*     body, author, createdAt, confidence, ...) are payload and are not   *)
(*     carried.                                                            *)
(***************************************************************************)
EXTENDS Integers, Sequences, FiniteSets, TLC

\* ---------------------------------------------------------------- bounds
MaxIds         == 3      \* identifiers uid() hands out (posts and arguments)
MaxCalls       == 4      \* calls made to the store (Spec)
MaxCallsFail   == 2      \* calls made to the store (SpecFail)
MaxCallsAll    == 3      \* calls made to the store (SpecAll)
MaxCallsLoad   == 3      \* calls and start-ups (SpecLoad)

\* ------------------------------------------------------------- constants
POSTS_KEY   == "agora_posts"
ARGS_KEY    == "agora_arguments"
TAGS_KEY    == "agora_tags"
VOTES_KEY   == "agora_votes"
CURRENT_KEY == "agora_current_post"

Keys == {POSTS_KEY, ARGS_KEY, TAGS_KEY, VOTES_KEY, CURRENT_KEY}

Null      == "null"
Undefined == "undefined"

DefaultTags ==
  << "democracy", "free speech", "ethics", "economics", "philosophy",
     "technology", "AI", "climate", "justice", "history", "law", "policy",
     "science", "religion", "capitalism", "equality", "rights", "education" >>

\* ---------------------------------------------------------------- inputs
UnknownIds == {0}

\* the spec objects handed to createPost: type, tags (omitted, already known,
\* new, repeated), position (omitted, for, against, other) and openingArgument
\* (omitted, '', ' ', ' a ')
PostSpecs ==
  { [type |-> "debate", tags |-> << >>, position |-> "for",
       opening |-> << << " ", "a", " " >> >>],
    [type |-> "question", tags |-> << >>, position |-> Undefined,
       opening |-> << >>],
    [type |-> "debate", tags |-> << << "ethics" >> >>, position |-> "for",
       opening |-> << >>],
    [type |-> "discussion", tags |-> << << "ethics" >> >>, position |-> Undefined,
       opening |-> << << " ", "a", " " >> >>],
    [type |-> "debate", tags |-> << << "agora", "ethics", "agora" >> >>,
       position |-> "against", opening |-> << << " ", "a", " " >> >>],
    [type |-> "debate", tags |-> << << "stoa", "agora" >> >>,
       position |-> "undecided", opening |-> << << " ", "a", " " >> >>],
    [type |-> "debate", tags |-> << << "stoa", "agora" >> >>,
       position |-> "against", opening |-> << << " " >> >>],
    [type |-> "question", tags |-> << << "agora", "ethics", "agora" >> >>,
       position |-> "undecided", opening |-> << << >> >>] }

\* the specs used where writes may fail: one per path through createPost
\* (tags omitted, no opening argument, opening argument, blank opening argument)
FailPostSpecs ==
  { s \in PostSpecs : s.type = "debate" /\ s.position \in {"for", "against"} }

SideInputs == {"for", "against", "neutral"}

Dirs == {"up", "down"}

\* ----------------------------------------------------------------- state
VARIABLES
  posts,     \* the posts array, newest first
  args,      \* { postId: [argument, ...] }
  allTags,   \* the tag vocabulary array
  votes,     \* { argId: { up, down, userVote } }
  ls,        \* localStorage: key -> << >> (no entry) or << stored value >>
  seq,       \* number of identifiers uid() has handed out
  failed,    \* number of localStorage.setItem calls that have thrown
  calls,     \* number of calls made to the store
  last,      \* the most recent call: operation, inputs, outcome
  pre,       \* the collections as they were before the most recent call
  before2    \* << collections >> before the first of two identical
             \* consecutive vote / toggleSteelman calls, else << >>

vars == << posts, args, allTags, votes, ls, seq, failed, calls, last, pre, before2 >>

Store ==
  [ posts |-> posts, args |-> args, allTags |-> allTags, votes |-> votes,
    ls |-> ls, seq |-> seq, failed |-> failed, writes |-> << >> ]

\* --------------------------------------------------------------- helpers
Range(s) == { s[i] : i \in DOMAIN s }

Includes(s, x) == \E i \in DOMAIN s : s[i] = x

\* mutant of Unshift: the new element goes to the end (Array.prototype.push)
Unshift_Push(s, x) == s \o << x >>

Unshift(s, x) == << x >> \o s

\* An entry of localStorage is << >> (no item), << v >> (the text
\* JSON.stringify(v) that save wrote) or << "text", t >> (a text t that
\* something else left under the key).
\* Texts save never writes: one that is not JSON, the JSON of a falsy value,
\* and the JSON of a list holding an empty list (no collection looks so).
ForeignTexts == {"oops", "null", "[[]]"}

ForeignEntries == { << "text", t >> : t \in ForeignTexts }

\* JSON.parse(t) throws a SyntaxError
ParseThrows(t) == t = "oops"

\* JSON.parse(t) is falsy
ParsesFalsy(t) == t = "null"

\* JSON.parse("[[]]")
Junk == << << >> >>

\* JSON.parse(localStorage.getItem(key)) || fallback, fallback on a throw
load(store, key, fallback) ==
  LET item == store[key]
  IN  IF item = << >> THEN fallback
      ELSE IF Len(item) = 1 THEN item[1]
      ELSE IF ParseThrows(item[2]) THEN fallback
      ELSE IF ParsesFalsy(item[2]) THEN fallback
      ELSE Junk

\* localStorage.setItem either stores the text or throws, and the throw is
\* caught; st.writes lists the writes the call in progress has attempted
save(st, key, val, fail) ==
  LET tried == [st EXCEPT !.writes = Append(@, [key |-> key, val |-> val, ok |-> ~fail])]
  IN  IF fail
        THEN [tried EXCEPT !.failed = @ + 1]
        ELSE [tried EXCEPT !.ls[key] = << val >>]

uid(st) == st.seq + 1

RECURSIVE trim(_)
trim(s) ==
  IF s = << >> THEN s
  ELSE IF Head(s) = " " THEN trim(Tail(s))
  ELSE IF s[Len(s)] = " " THEN trim(SubSeq(s, 1, Len(s) - 1))
  ELSE s

\* openingArgument && openingArgument.trim()
HasOpening(opening) ==
  /\ opening # << >>
  /\ opening[1] # << >>
  /\ trim(opening[1]) # << >>

\* index of the first post with this id, 0 when there is none
FindPost(ps, id) ==
  IF \E i \in DOMAIN ps : ps[i].id = id
    THEN CHOOSE i \in DOMAIN ps :
           /\ ps[i].id = id
           /\ \A j \in DOMAIN ps : ps[j].id = id => i <= j
    ELSE 0

getPost(st, id) ==
  IF FindPost(st.posts, id) = 0 THEN << >>
  ELSE << st.posts[FindPost(st.posts, id)] >>

getArguments(st, postId) ==
  IF postId \in DOMAIN st.args THEN st.args[postId] ELSE << >>

ZeroVote == [up |-> 0, down |-> 0, userVote |-> Null]

getVotes(st, argId) ==
  IF argId \in DOMAIN st.votes THEN st.votes[argId] ELSE ZeroVote

\* obj[key] = val on a map held as a function
Put(f, k, v) == [x \in DOMAIN f \cup {k} |-> IF x = k THEN v ELSE f[x]]

\* ------------------------------------------------------------ operations
\* mutant of RegisterTags: each tag is looked up in the vocabulary as it was
\* before the call, not as it has grown during the loop
RegisterTags_StaleLookup(vocab, tags) ==
  vocab \o SelectSeq(tags, LAMBDA t : ~Includes(vocab, t))

\* mutant of RegisterTags: the vocabulary becomes the tags of the new post
RegisterTags_Replace(vocab, tags) ==
  SelectSeq(tags, LAMBDA t : ~Includes(vocab, t))

\* tags.forEach(t => { if (!allTags.includes(t)) allTags.push(t); })
RECURSIVE RegisterTags(_, _)
RegisterTags(vocab, tags) ==
  IF tags = << >> THEN vocab
  ELSE RegisterTags(IF Includes(vocab, Head(tags)) THEN vocab
                    ELSE Append(vocab, Head(tags)),
                    Tail(tags))

NewArgument(id, postId, side) ==
  [ id |-> id, postId |-> postId, side |-> side,
    steelmanned |-> FALSE, steelmanCount |-> 0 ]

\* mutant of CountArgument: every argument is counted as a 'for'
CountArgument_AlwaysFor(ps, i, side) ==
  [ps EXCEPT ![i] =
     [@ EXCEPT !.argCount = @ + 1, !.forCount = @ + 1]]

\* post.argCount++, post.forCount++ / post.againstCount++ on the post found
CountArgument(ps, i, side) ==
  [ps EXCEPT ![i] =
     [@ EXCEPT !.argCount     = @ + 1,
               !.forCount     = IF side = "for" THEN @ + 1 ELSE @,
               !.againstCount = IF side = "against" THEN @ + 1 ELSE @]]

\* mutant of createArgument: save has no try/catch, so the first write that
\* throws ends the call
createArgument_AbortsOnFailedWrite(st, postId, side, fails) ==
  LET arg == NewArgument(uid(st), postId, side)
      s0  == [st EXCEPT !.seq = @ + 1]
      s1  == [s0 EXCEPT !.args = Put(@, postId, Unshift(getArguments(s0, postId), arg))]
      s2  == save(s1, ARGS_KEY, s1.args, ARGS_KEY \in fails)
      i   == FindPost(s2.posts, postId)
      s3  == IF i = 0 THEN s2
             ELSE LET s == [s2 EXCEPT !.posts = CountArgument(@, i, side)]
                  IN  save(s, POSTS_KEY, s.posts, POSTS_KEY \in fails)
      s4  == [s3 EXCEPT !.votes = Put(@, arg.id, ZeroVote)]
      s5  == save(s4, VOTES_KEY, s4.votes, VOTES_KEY \in fails)
  IN  IF ARGS_KEY \in fails
        THEN [st |-> s2, ret |-> << >>, threw |-> TRUE]
        ELSE IF i # 0 /\ POSTS_KEY \in fails
          THEN [st |-> s3, ret |-> << >>, threw |-> TRUE]
          ELSE [st |-> s5, ret |-> << arg >>, threw |-> VOTES_KEY \in fails]

\* mutant of createArgument: the vote record is not initialised
createArgument_NoVoteInit(st, postId, side, fails) ==
  LET arg == NewArgument(uid(st), postId, side)
      s0  == [st EXCEPT !.seq = @ + 1]
      s1  == [s0 EXCEPT !.args = Put(@, postId, Unshift(getArguments(s0, postId), arg))]
      s2  == save(s1, ARGS_KEY, s1.args, ARGS_KEY \in fails)
      i   == FindPost(s2.posts, postId)
      s3  == IF i = 0 THEN s2
             ELSE LET s == [s2 EXCEPT !.posts = CountArgument(@, i, side)]
                  IN  save(s, POSTS_KEY, s.posts, POSTS_KEY \in fails)
  IN  [st |-> s3, ret |-> << arg >>, threw |-> FALSE]

\* createArgument(postId, { side, ... }); fails: the keys whose write throws.
\* The result is [st |-> the store afterwards, ret |-> << the argument >>].
createArgument(st, postId, side, fails) ==
  LET arg == NewArgument(uid(st), postId, side)
      s0  == [st EXCEPT !.seq = @ + 1]
      s1  == [s0 EXCEPT !.args = Put(@, postId, Unshift(getArguments(s0, postId), arg))]
      s2  == save(s1, ARGS_KEY, s1.args, ARGS_KEY \in fails)
      i   == FindPost(s2.posts, postId)
      s3  == IF i = 0 THEN s2
             ELSE LET s == [s2 EXCEPT !.posts = CountArgument(@, i, side)]
                  IN  save(s, POSTS_KEY, s.posts, POSTS_KEY \in fails)
      s4  == [s3 EXCEPT !.votes = Put(@, arg.id, ZeroVote)]
      s5  == save(s4, VOTES_KEY, s4.votes, VOTES_KEY \in fails)
  IN  [st |-> s5, ret |-> << arg >>, threw |-> FALSE]

NewPost(id, type, tags, position) ==
  [ id |-> id,
    type |-> type,
    tags |-> IF tags = << >> THEN << >> ELSE tags[1],
    position |-> IF position = Undefined THEN Null ELSE position,
    argCount |-> 0, forCount |-> 0, againstCount |-> 0, mindChanges |-> 0 ]

OpeningSide(position) ==
  IF position = "for" \/ position = "against" THEN position ELSE "for"

\* createPost({ type, tags, position, openingArgument, ... }); fails: the keys whose
\* write by createPost itself throws, fails2: those of the nested
\* createArgument.  tags.forEach on omitted tags throws a TypeError, which
\* ends the call after the post has been stored.
createPost(st, type, tags, position, opening, fails, fails2) ==
  LET post == NewPost(uid(st), type, tags, position)
      s0   == [st EXCEPT !.seq = @ + 1]
      s1   == [s0 EXCEPT !.posts = Unshift(@, post)]
      s2   == save(s1, POSTS_KEY, s1.posts, POSTS_KEY \in fails)
  IN  IF tags = << >>
        THEN [st |-> s2, ret |-> << >>, threw |-> TRUE]
        ELSE
          LET s3 == [s2 EXCEPT !.allTags = RegisterTags(@, tags[1])]
              s4 == save(s3, TAGS_KEY, s3.allTags, TAGS_KEY \in fails)
              s5 == IF HasOpening(opening)
                      THEN createArgument(s4, post.id, OpeningSide(position), fails2).st
                      ELSE s4
          IN  [st |-> s5, ret |-> << post.id >>, threw |-> FALSE]

\* mutants of VoteRecord
\* switching direction does not take back the previous vote
VoteRecord_SwitchKeepsOld(v, dir) ==
  IF v.userVote = dir
    THEN [v EXCEPT ![dir] = @ - 1, !.userVote = Null]
    ELSE [v EXCEPT ![dir] = @ + 1, !.userVote = dir]

\* undoing decrements the counter but leaves userVote set
VoteRecord_UndoKeepsUserVote(v, dir) ==
  IF v.userVote = dir
    THEN [v EXCEPT ![dir] = @ - 1]
    ELSE LET u == IF v.userVote # Null THEN [v EXCEPT ![v.userVote] = @ - 1] ELSE v
         IN  [u EXCEPT ![dir] = @ + 1, !.userVote = dir]

\* any existing vote is undone, whatever the direction cast
VoteRecord_AnyVoteUndoes(v, dir) ==
  IF v.userVote # Null
    THEN [v EXCEPT ![v.userVote] = @ - 1, !.userVote = Null]
    ELSE [v EXCEPT ![dir] = @ + 1, !.userVote = dir]

\* there is no undo: the same direction is cast again
VoteRecord_NoUndo(v, dir) ==
  LET u == IF v.userVote # Null THEN [v EXCEPT ![v.userVote] = @ - 1] ELSE v
  IN  [u EXCEPT ![dir] = @ + 1, !.userVote = dir]

VoteRecord(v, dir) ==
  IF v.userVote = dir
    THEN [v EXCEPT ![dir] = @ - 1, !.userVote = Null]
    ELSE LET u == IF v.userVote # Null THEN [v EXCEPT ![v.userVote] = @ - 1] ELSE v
         IN  [u EXCEPT ![dir] = @ + 1, !.userVote = dir]

\* mutant of vote: the record is changed in memory and never saved
vote_NoSave(st, argId, dir, fails) ==
  LET s1 == [st EXCEPT !.votes = Put(@, argId, VoteRecord(getVotes(st, argId), dir))]
  IN  [st |-> s1, ret |-> << s1.votes[argId] >>, threw |-> FALSE]

vote(st, argId, dir, fails) ==
  LET s1 == [st EXCEPT !.votes = Put(@, argId, VoteRecord(getVotes(st, argId), dir))]
      s2 == save(s1, VOTES_KEY, s1.votes, VOTES_KEY \in fails)
  IN  [st |-> s2, ret |-> << s2.votes[argId] >>, threw |-> FALSE]

\* the post ids, in for...in order, whose argument list holds argId
HoldersOf(as, argId) ==
  { p \in DOMAIN as : \E i \in DOMAIN as[p] : as[p][i].id = argId }

FirstKey(S) == CHOOSE p \in S : \A q \in S : p <= q

FindArg(list, argId) ==
  CHOOSE i \in DOMAIN list :
    /\ list[i].id = argId
    /\ \A j \in DOMAIN list : list[j].id = argId => i <= j

\* mutant of Flip: the count goes up on every toggle
Flip_CountUpOnly(a) ==
  [a EXCEPT !.steelmanned = ~@, !.steelmanCount = @ + 1]

Flip(a) ==
  [a EXCEPT !.steelmanned   = ~@,
            !.steelmanCount = IF a.steelmanned THEN @ - 1 ELSE @ + 1]

\* mutant of toggleSteelman: the save sits after the loop, so a miss writes too
toggleSteelman_SavesOnMiss(st, argId, fails) ==
  IF HoldersOf(st.args, argId) = {}
    THEN [st |-> save(st, ARGS_KEY, st.args, ARGS_KEY \in fails),
          ret |-> << FALSE >>, threw |-> FALSE]
    ELSE
      LET p  == FirstKey(HoldersOf(st.args, argId))
          i  == FindArg(st.args[p], argId)
          s1 == [st EXCEPT !.args[p][i] = Flip(@)]
          s2 == save(s1, ARGS_KEY, s1.args, ARGS_KEY \in fails)
      IN  [st |-> s2, ret |-> << s2.args[p][i].steelmanned >>, threw |-> FALSE]

toggleSteelman(st, argId, fails) ==
  IF HoldersOf(st.args, argId) = {}
    THEN [st |-> st, ret |-> << FALSE >>, threw |-> FALSE]
    ELSE
      LET p  == FirstKey(HoldersOf(st.args, argId))
          i  == FindArg(st.args[p], argId)
          s1 == [st EXCEPT !.args[p][i] = Flip(@)]
          s2 == save(s1, ARGS_KEY, s1.args, ARGS_KEY \in fails)
      IN  [st |-> s2, ret |-> << s2.args[p][i].steelmanned >>, threw |-> FALSE]

\* mutant of declareMindChange: the declaration is also counted as an argument
declareMindChange_CountsAsArgument(st, postId, fails) ==
  LET i == FindPost(st.posts, postId)
  IN  IF i = 0
        THEN [st |-> st, ret |-> << >>, threw |-> FALSE]
        ELSE
          LET s1 == [st EXCEPT !.posts[i].mindChanges = @ + 1,
                               !.posts[i].argCount = @ + 1]
              s2 == save(s1, POSTS_KEY, s1.posts, POSTS_KEY \in fails)
          IN  [st |-> s2, ret |-> << >>, threw |-> FALSE]

declareMindChange(st, postId, fails) ==
  LET i == FindPost(st.posts, postId)
  IN  IF i = 0
        THEN [st |-> st, ret |-> << >>, threw |-> FALSE]
        ELSE
          LET s1 == [st EXCEPT !.posts[i].mindChanges = @ + 1]
              s2 == save(s1, POSTS_KEY, s1.posts, POSTS_KEY \in fails)
          IN  [st |-> s2, ret |-> << >>, threw |-> FALSE]

\* setCurrentPost(postId); postId is << id >>
setCurrentPost(st, postId, fails) ==
  [st |-> save(st, CURRENT_KEY, postId, CURRENT_KEY \in fails),
   ret |-> << >>, threw |-> FALSE]

\* getCurrentPost(): the post the stored pointer names, << >> for null
getCurrentPost(st) ==
  LET id == load(st.ls, CURRENT_KEY, << >>)
  IN  IF id # << >> THEN getPost(st, id[1]) ELSE << >>

getAllPosts(st) == st.posts

RECURSIVE Filter(_, _)
Filter(ps, type) ==
  IF ps = << >> THEN << >>
  ELSE IF Head(ps).type = type THEN << Head(ps) >> \o Filter(Tail(ps), type)
  ELSE Filter(Tail(ps), type)

getPostsByType(st, type) == Filter(st.posts, type)

getAllTags(st) == st.allTags

\* --------------------------------------------------------- state machine
NoCall ==
  [ op |-> "none", id |-> 0, dir |-> Undefined, type |-> Undefined,
    tags |-> << >>, position |-> Undefined, opening |-> << >>,
    ret |-> << >>, threw |-> FALSE, writes |-> << >> ]

Snapshot(st) ==
  [ posts |-> st.posts, args |-> st.args, allTags |-> st.allTags,
    votes |-> st.votes, ls |-> st.ls, seq |-> st.seq, failed |-> st.failed ]

PostIds == { posts[i].id : i \in DOMAIN posts }

ArgIds == UNION { { args[p][i].id : i \in DOMAIN args[p] } : p \in DOMAIN args }

EmptyMap == [x \in {} |-> 0]

\* the module body run on an empty localStorage
Init ==
  /\ ls      = [k \in Keys |-> << >>]
  /\ posts   = load(ls, POSTS_KEY, << >>)
  /\ args    = load(ls, ARGS_KEY, EmptyMap)
  /\ allTags = load(ls, TAGS_KEY, DefaultTags)
  /\ votes   = load(ls, VOTES_KEY, EmptyMap)
  /\ seq     = 0
  /\ failed  = 0
  /\ calls   = 0
  /\ last    = NoCall
  /\ pre     = Snapshot(Store)
  /\ before2 = << >>

\* the call returns (or throws): the store becomes r.st, the call is recorded
Return(r, call, B) ==
  /\ calls < B
  /\ r.st.seq <= MaxIds
  /\ posts'   = r.st.posts
  /\ args'    = r.st.args
  /\ allTags' = r.st.allTags
  /\ votes'   = r.st.votes
  /\ ls'      = r.st.ls
  /\ seq'     = r.st.seq
  /\ failed'  = r.st.failed
  /\ calls'   = calls + 1
  /\ last'    = [call EXCEPT !.ret = r.ret, !.threw = r.threw,
                              !.writes = r.st.writes]
  /\ pre'     = Snapshot(Store)
  /\ before2' = IF /\ call.op \in {"vote", "toggleSteelman"}
                   /\ last.op = call.op
                   /\ last.id = call.id
                   /\ last.dir = call.dir
                  THEN << pre >>
                  ELSE << >>

\* the keys whose write threw during the call that gave r
Thrown(r) ==
  { r.st.writes[i].key : i \in { j \in DOMAIN r.st.writes : ~r.st.writes[j].ok } }

\* W: the keys whose localStorage.setItem may throw; B: the bound on calls.
\* A throw is chosen only for a write the call makes.
CallCreatePost(S, W, B) ==
  /\ calls < B
  /\ \E spec \in S,
        fails \in SUBSET ({POSTS_KEY, TAGS_KEY} \cap W),
        fails2 \in SUBSET ({ARGS_KEY, POSTS_KEY, VOTES_KEY} \cap W) :
       LET r == createPost(Store, spec.type, spec.tags, spec.position, spec.opening, fails, fails2)
       IN  /\ Thrown(r) = fails \cup fails2
           /\ fails2 # {} => (spec.tags # << >> /\ HasOpening(spec.opening))
           /\ Return(r,
              [NoCall EXCEPT !.op = "createPost", !.type = spec.type, !.tags = spec.tags,
                             !.position = spec.position, !.opening = spec.opening], B)

CallCreateArgument(W, B) ==
  /\ calls < B
  /\ \E postId \in PostIds \cup UnknownIds, side \in SideInputs,
        fails \in SUBSET ({ARGS_KEY, POSTS_KEY, VOTES_KEY} \cap W) :
       LET r == createArgument(Store, postId, side, fails)
       IN  /\ Thrown(r) = fails
           /\ Return(r,
              [NoCall EXCEPT !.op = "createArgument", !.id = postId, !.dir = side], B)

CallVote(W, B) ==
  /\ calls < B
  /\ \E argId \in ArgIds \cup UnknownIds, dir \in Dirs,
        fails \in SUBSET ({VOTES_KEY} \cap W) :
       LET r == vote(Store, argId, dir, fails)
       IN  /\ Thrown(r) = fails
           /\ Return(r,
              [NoCall EXCEPT !.op = "vote", !.id = argId, !.dir = dir], B)

CallToggleSteelman(W, B) ==
  /\ calls < B
  /\ \E argId \in ArgIds \cup UnknownIds, fails \in SUBSET ({ARGS_KEY} \cap W) :
       LET r == toggleSteelman(Store, argId, fails)
       IN  /\ Thrown(r) = fails
           /\ Return(r,
              [NoCall EXCEPT !.op = "toggleSteelman", !.id = argId], B)

CallDeclareMindChange(W, B) ==
  /\ calls < B
  /\ \E postId \in PostIds \cup UnknownIds, fails \in SUBSET ({POSTS_KEY} \cap W) :
       LET r == declareMindChange(Store, postId, fails)
       IN  /\ Thrown(r) = fails
           /\ Return(r,
              [NoCall EXCEPT !.op = "declareMindChange", !.id = postId], B)

\* every localStorage write succeeds
Next ==
  \/ CallCreatePost(PostSpecs, {}, MaxCalls)
  \/ CallCreateArgument({}, MaxCalls)
  \/ CallVote({}, MaxCalls)
  \/ CallToggleSteelman({}, MaxCalls)
  \/ CallDeclareMindChange({}, MaxCalls)

Spec == Init /\ [][Next]_vars

\* localStorage.setItem may throw (quota exceeded, storage disabled)
NextFail ==
  \/ CallCreatePost(FailPostSpecs, Keys, MaxCallsFail)
  \/ CallCreateArgument(Keys, MaxCallsFail)
  \/ CallVote(Keys, MaxCallsFail)
  \/ CallToggleSteelman(Keys, MaxCallsFail)
  \/ CallDeclareMindChange(Keys, MaxCallsFail)

SpecFail == Init /\ [][NextFail]_vars

\* a read: the store stays as it is and the call returns v
Answer(v) == [st |-> Store, ret |-> << v >>, threw |-> FALSE]

PostTypes == {"debate", "discussion", "question"}

ReadOps ==
  {"getPost", "getAllPosts", "getPostsByType", "getArguments", "getVotes",
   "getCurrentPost", "getAllTags"}

CallSetCurrentPost(W, B) ==
  /\ calls < B
  /\ \E postId \in PostIds \cup UnknownIds, fails \in SUBSET ({CURRENT_KEY} \cap W) :
       Return(setCurrentPost(Store, << postId >>, fails),
              [NoCall EXCEPT !.op = "setCurrentPost", !.id = postId], B)

CallGetPost(B) ==
  /\ calls < B
  /\ \E id \in PostIds \cup UnknownIds :
       Return(Answer(getPost(Store, id)), [NoCall EXCEPT !.op = "getPost", !.id = id], B)

CallGetAllPosts(B) ==
  /\ calls < B
  /\ Return(Answer(getAllPosts(Store)), [NoCall EXCEPT !.op = "getAllPosts"], B)

CallGetPostsByType(B) ==
  /\ calls < B
  /\ \E type \in PostTypes :
       Return(Answer(getPostsByType(Store, type)),
              [NoCall EXCEPT !.op = "getPostsByType", !.type = type], B)

CallGetArguments(B) ==
  /\ calls < B
  /\ \E postId \in PostIds \cup UnknownIds :
       Return(Answer(getArguments(Store, postId)),
              [NoCall EXCEPT !.op = "getArguments", !.id = postId], B)

CallGetVotes(B) ==
  /\ calls < B
  /\ \E argId \in ArgIds \cup UnknownIds :
       Return(Answer(getVotes(Store, argId)),
              [NoCall EXCEPT !.op = "getVotes", !.id = argId], B)

CallGetCurrentPost(B) ==
  /\ calls < B
  /\ Return(Answer(getCurrentPost(Store)), [NoCall EXCEPT !.op = "getCurrentPost"], B)

CallGetAllTags(B) ==
  /\ calls < B
  /\ Return(Answer(getAllTags(Store)), [NoCall EXCEPT !.op = "getAllTags"], B)

\* the whole public data API, every localStorage write succeeding
NextAll ==
  \/ CallCreatePost(PostSpecs, {}, MaxCallsAll)
  \/ CallCreateArgument({}, MaxCallsAll)
  \/ CallVote({}, MaxCallsAll)
  \/ CallToggleSteelman({}, MaxCallsAll)
  \/ CallDeclareMindChange({}, MaxCallsAll)
  \/ CallSetCurrentPost({}, MaxCallsAll)
  \/ CallGetPost(MaxCallsAll)
  \/ CallGetAllPosts(MaxCallsAll)
  \/ CallGetPostsByType(MaxCallsAll)
  \/ CallGetArguments(MaxCallsAll)
  \/ CallGetVotes(MaxCallsAll)
  \/ CallGetCurrentPost(MaxCallsAll)
  \/ CallGetAllTags(MaxCallsAll)

SpecAll == Init /\ [][NextAll]_vars

CollectionKeys == {POSTS_KEY, ARGS_KEY, TAGS_KEY, VOTES_KEY}

\* the module body run on a localStorage where at most one collection's key
\* holds a text the store did not write
InitLoad ==
  /\ ls \in { [k \in Keys |-> << >>] }
            \cup { [k \in Keys |-> IF k = key THEN e ELSE << >>] :
                     key \in CollectionKeys, e \in ForeignEntries }
  /\ posts   = load(ls, POSTS_KEY, << >>)
  /\ args    = load(ls, ARGS_KEY, EmptyMap)
  /\ allTags = load(ls, TAGS_KEY, DefaultTags)
  /\ votes   = load(ls, VOTES_KEY, EmptyMap)
  /\ seq     = 0
  /\ failed  = 0
  /\ calls   = 0
  /\ last    = NoCall
  /\ pre     = Snapshot(Store)
  /\ before2 = << >>

\* the page is loaded again: the module body runs on the entries as they are
Reload(B) ==
  /\ calls < B
  /\ posts'   = load(ls, POSTS_KEY, << >>)
  /\ args'    = load(ls, ARGS_KEY, EmptyMap)
  /\ allTags' = load(ls, TAGS_KEY, DefaultTags)
  /\ votes'   = load(ls, VOTES_KEY, EmptyMap)
  /\ calls'   = calls + 1
  /\ last'    = [NoCall EXCEPT !.op = "load"]
  /\ pre'     = Snapshot(Store)
  /\ before2' = << >>
  /\ UNCHANGED << ls, seq, failed >>

\* every collection has the shape the operations are written for
Shaped == posts # Junk /\ args # Junk /\ allTags # Junk /\ votes # Junk

\* start-ups and calls; calls on a collection of another shape are left out
NextLoad ==
  \/ Reload(MaxCallsLoad)
  \/ Shaped /\ CallCreatePost(FailPostSpecs, {}, MaxCallsLoad)
  \/ Shaped /\ CallCreateArgument({}, MaxCallsLoad)
  \/ Shaped /\ CallVote({}, MaxCallsLoad)
  \/ Shaped /\ CallToggleSteelman({}, MaxCallsLoad)
  \/ Shaped /\ CallDeclareMindChange({}, MaxCallsLoad)

SpecLoad == InitLoad /\ [][NextLoad]_vars

\* ---------------------------------------------------------------- claims
CountSide(list, side) ==
  Cardinality({ i \in DOMAIN list : list[i].side = side })

NoDuplicates(s) == Cardinality(Range(s)) = Len(s)

SnapArgIds(snap) ==
  UNION { { snap.args[p][i].id : i \in DOMAIN snap.args[p] } : p \in DOMAIN snap.args }

Opposite(dir) == IF dir = "up" THEN "down" ELSE "up"

\* C1: every stored post's forCount, againstCount and argCount equal the
\* number of arguments stored for it with side 'for', with side 'against',
\* and in total.
C1_CountersMatchArguments ==
  \A i \in DOMAIN posts :
    LET list == getArguments(Store, posts[i].id)
    IN  /\ posts[i].forCount     = CountSide(list, "for")
        /\ posts[i].againstCount = CountSide(list, "against")
        /\ posts[i].argCount     = Len(list)

\* a post holding both a 'for' and an 'against' argument
C1_Witness ==
  \E i \in DOMAIN posts :
    /\ CountSide(getArguments(Store, posts[i].id), "for") >= 1
    /\ CountSide(getArguments(Store, posts[i].id), "against") >= 1

\* C2: every vote record has userVote none, up or down, counters that are 0
\* or 1, up = 1 exactly when userVote = up and down = 1 exactly when
\* userVote = down.
C2_VoteRecordShape ==
  \A a \in DOMAIN votes :
    /\ votes[a].userVote \in {Null, "up", "down"}
    /\ votes[a].up \in {0, 1}
    /\ votes[a].down \in {0, 1}
    /\ votes[a].up = 1 <=> votes[a].userVote = "up"
    /\ votes[a].down = 1 <=> votes[a].userVote = "down"

\* a vote has just been moved from one direction to the other
C2_Witness ==
  /\ last.op = "vote"
  /\ last.id \in DOMAIN pre.votes
  /\ pre.votes[last.id].userVote = Opposite(last.dir)

\* C3: on an argument whose vote record is up=0, down=0, no vote, casting the
\* same direction twice in a row leaves the record at up=0, down=0, no vote.
C3_SameDirectionTwiceOnFresh ==
  ( /\ last.op = "vote"
    /\ before2 # << >>
    /\ last.id \in SnapArgIds(before2[1])
    /\ getVotes(before2[1], last.id) = ZeroVote )
  => votes[last.id] = ZeroVote

\* two identical votes have just been cast on an argument that had none
C3_Witness ==
  /\ last.op = "vote"
  /\ before2 # << >>
  /\ last.id \in SnapArgIds(before2[1])
  /\ getVotes(before2[1], last.id) = ZeroVote
  /\ pre.votes[last.id].userVote = last.dir

\* C4: casting the direction opposite to the current userVote decrements the
\* old direction's counter, increments the new one's and sets userVote to the
\* new direction; up on a fresh record gives (1, 0, up) and down on that gives
\* (0, 1, down).
C4_SwitchMovesTheVote ==
  last.op = "vote" =>
    LET b == getVotes(pre, last.id)
        v == votes[last.id]
        d == last.dir
    IN  /\ b.userVote = Opposite(d) =>
             /\ v[Opposite(d)] = b[Opposite(d)] - 1
             /\ v[d] = b[d] + 1
             /\ v.userVote = d
        /\ (b = ZeroVote /\ d = "up") =>
             v = [up |-> 1, down |-> 0, userVote |-> "up"]
        /\ (b = [up |-> 1, down |-> 0, userVote |-> "up"] /\ d = "down") =>
             v = [up |-> 0, down |-> 1, userVote |-> "down"]

\* down has just been cast on an argument whose vote was up
C4_Witness ==
  /\ last.op = "vote"
  /\ last.dir = "down"
  /\ last.id \in ArgIds
  /\ getVotes(pre, last.id) = [up |-> 1, down |-> 0, userVote |-> "up"]

\* C5 as stated: from every vote record state, casting the same direction
\* twice in a row ends with userVote = none.
C5_TwiceAlwaysEndsInNoVote ==
  (last.op = "vote" /\ before2 # << >>) => votes[last.id].userVote = Null

\* C5 amended: casting direction d twice in a row ends with userVote = none
\* when the record's userVote before the two calls was not d, and gives the
\* record back as it was (userVote = d) when it was d.
C5_TwiceEndsInNoVoteUnlessAlreadyCast ==
  (last.op = "vote" /\ before2 # << >>) =>
    LET b == getVotes(before2[1], last.id)
    IN  /\ b.userVote # last.dir => votes[last.id].userVote = Null
        /\ b.userVote = last.dir => votes[last.id] = b

\* the same direction has been cast twice on a record holding the opposite one
C5_Witness ==
  /\ last.op = "vote"
  /\ before2 # << >>
  /\ getVotes(before2[1], last.id).userVote = Opposite(last.dir)

\* C6: toggleSteelman twice in a row on an existing argument gives back that
\* argument's steelmanned flag and steelmanCount and changes no other argument.
C6_ToggleTwiceRestores ==
  ( /\ last.op = "toggleSteelman"
    /\ before2 # << >>
    /\ last.id \in SnapArgIds(before2[1]) )
  => args = before2[1].args

\* an existing argument has been toggled twice while another argument exists
C6_Witness ==
  /\ last.op = "toggleSteelman"
  /\ before2 # << >>
  /\ last.id \in SnapArgIds(before2[1])
  /\ pre.args # args
  /\ Cardinality(ArgIds) >= 2

\* C7: createPost with a tag list appends to the vocabulary exactly the
\* distinct tags of the list that were not in it, once each, and nothing
\* else; the vocabulary never holds a duplicate.
C7_VocabularyGrowsByNewTags ==
  /\ NoDuplicates(allTags)
  /\ (last.op = "createPost" /\ last.tags # << >>) =>
       /\ Len(allTags) = Len(pre.allTags)
             + Cardinality(Range(last.tags[1]) \ Range(pre.allTags))
       /\ SubSeq(allTags, 1, Len(pre.allTags)) = pre.allTags
       /\ Range(allTags) = Range(pre.allTags) \cup Range(last.tags[1])

\* a post has been created whose tag list repeats a tag that was unknown
C7_Witness ==
  /\ last.op = "createPost"
  /\ last.tags = << << "agora", "ethics", "agora" >> >>
  /\ ~Includes(pre.allTags, "agora")
  /\ Includes(pre.allTags, "ethics")

\* C8 as stated: every stored argument has side 'for' or 'against', whatever
\* side value the caller supplies.
C8_SideIsForOrAgainst ==
  \A p \in DOMAIN args : \A i \in DOMAIN args[p] :
    args[p][i].side \in {"for", "against"}

\* C9: while no write has failed, after every call each persisted entry holds
\* the in-memory collection: a collection the call changed has been written,
\* and an entry that exists equals the collection (an entry that does not
\* exist stands for the default the collection still has).
C9_PersistedMirrorsMemory ==
  (failed = 0 /\ last.op # "none") =>
    /\ load(ls, POSTS_KEY, << >>) = posts
    /\ load(ls, ARGS_KEY, EmptyMap) = args
    /\ load(ls, TAGS_KEY, DefaultTags) = allTags
    /\ load(ls, VOTES_KEY, EmptyMap) = votes
    /\ posts # pre.posts => ls[POSTS_KEY] = << posts >>
    /\ args # pre.args => ls[ARGS_KEY] = << args >>
    /\ allTags # pre.allTags => ls[TAGS_KEY] = << allTags >>
    /\ votes # pre.votes => ls[VOTES_KEY] = << votes >>

\* a vote has just changed the record of an argument of a stored post
C9_Witness ==
  /\ failed = 0
  /\ last.op = "vote"
  /\ last.id \in ArgIds
  /\ votes # pre.votes
  /\ posts # << >>

\* C10 as stated: the post createPost has just created has argCount = 1 and
\* exactly one argument, on the side its position gives, when an opening
\* statement that is not blank was supplied, and no argument and zero
\* counters otherwise.
C10_OpeningArgumentIffSupplied ==
  last.op = "createPost" =>
    LET p    == posts[1]
        list == getArguments(Store, p.id)
    IN  IF HasOpening(last.opening)
          THEN /\ p.argCount = 1
               /\ Len(list) = 1
               /\ list[1].side = IF last.position \in {"for", "against"}
                                   THEN last.position ELSE "for"
          ELSE /\ p.argCount = 0
               /\ p.forCount = 0
               /\ p.againstCount = 0
               /\ list = << >>

\* C11: toggleSteelman on an id no stored argument has returns false and
\* changes no collection and no persisted entry; on a stored argument it flips
\* that argument's flag, moves its count by +1 (flag now true) or -1 (flag now
\* false), changes nothing else and returns the new flag.
C11_ToggleSteelmanOutcome ==
  last.op = "toggleSteelman" =>
    /\ posts = pre.posts
    /\ allTags = pre.allTags
    /\ votes = pre.votes
    /\ IF last.id \notin SnapArgIds(pre)
         THEN /\ last.ret = << FALSE >>
              /\ args = pre.args
              /\ ls = pre.ls
         ELSE /\ DOMAIN args = DOMAIN pre.args
              /\ \A p \in DOMAIN args :
                   /\ Len(args[p]) = Len(pre.args[p])
                   /\ \A i \in DOMAIN args[p] :
                        LET b == pre.args[p][i]
                            a == args[p][i]
                        IN  IF b.id = last.id
                              THEN /\ a.steelmanned = ~b.steelmanned
                                   /\ a.steelmanCount =
                                        b.steelmanCount + (IF a.steelmanned THEN 1 ELSE -1)
                                   /\ [a EXCEPT !.steelmanned = b.steelmanned,
                                                !.steelmanCount = b.steelmanCount] = b
                                   /\ last.ret = << a.steelmanned >>
                              ELSE a = b

\* a steelmanned argument has just been toggled back, after a miss could
\* have happened on the same store (another argument exists)
C11_Witness ==
  /\ last.op = "toggleSteelman"
  /\ last.id \in SnapArgIds(pre)
  /\ last.ret = << FALSE >>
  /\ Cardinality(ArgIds) >= 2

\* toggleSteelman has just missed on a store that holds arguments
C11_WitnessMiss ==
  /\ last.op = "toggleSteelman"
  /\ last.id \notin SnapArgIds(pre)
  /\ ArgIds # {}

\* C12 as stated: no call to the store throws, and createPost (also with the
\* tag list omitted) returns the new post with the post stored and the tag
\* vocabulary saved.
C12_NoOperationFails ==
  /\ ~last.threw
  /\ last.op = "createPost" =>
       /\ posts # << >>
       /\ last.ret = << posts[1].id >>
       /\ ls[POSTS_KEY] = << posts >>
       /\ ls[TAGS_KEY] = << allTags >>

\* the store as it was before the most recent call
PreStore ==
  [ posts |-> pre.posts, args |-> pre.args, allTags |-> pre.allTags,
    votes |-> pre.votes, ls |-> pre.ls, seq |-> pre.seq,
    failed |-> pre.failed, writes |-> << >> ]

\* the call made on store st with every write succeeding
AllWritesSucceed(st, call) ==
  CASE call.op = "createPost" ->
         createPost(st, call.type, call.tags, call.position, call.opening, {}, {})
    [] call.op = "createArgument" -> createArgument(st, call.id, call.dir, {})
    [] call.op = "vote" -> vote(st, call.id, call.dir, {})
    [] call.op = "toggleSteelman" -> toggleSteelman(st, call.id, {})
    [] call.op = "declareMindChange" -> declareMindChange(st, call.id, {})

\* what key k holds after the writes of the log: the value of the last write
\* to k that did not throw, else what it held before
PersistedAfter(before, log, k) ==
  LET done == { i \in DOMAIN log : log[i].key = k /\ log[i].ok }
  IN  IF done = {} THEN before[k]
      ELSE << log[CHOOSE i \in done : \A j \in done : j <= i].val >>

\* C13: when writes throw during a call, the call ends as in the run where
\* every write succeeds (same outcome, same result, same collections), it
\* attempts the same writes of the same values in the same order, and each
\* key holds its last write that did not throw (earlier writes are kept).
C13_WriteFailureNotSurfaced ==
  last.op \in {"createPost", "createArgument", "vote", "toggleSteelman",
               "declareMindChange"} =>
    LET good == AllWritesSucceed(PreStore, last)
    IN  /\ last.threw = good.threw
        /\ last.ret = good.ret
        /\ posts = good.st.posts
        /\ args = good.st.args
        /\ allTags = good.st.allTags
        /\ votes = good.st.votes
        /\ Len(last.writes) = Len(good.st.writes)
        /\ \A i \in DOMAIN last.writes :
             /\ last.writes[i].key = good.st.writes[i].key
             /\ last.writes[i].val = good.st.writes[i].val
        /\ \A k \in Keys : ls[k] = PersistedAfter(pre.ls, last.writes, k)

\* a createPost with an opening argument whose write of the arguments threw
\* and whose later write of the votes went through
C13_Witness ==
  /\ last.op = "createPost"
  /\ \E i, j \in DOMAIN last.writes :
       /\ i < j
       /\ last.writes[i].key = ARGS_KEY
       /\ ~last.writes[i].ok
       /\ last.writes[j].key = VOTES_KEY
       /\ last.writes[j].ok

IdsOf(list) == [i \in DOMAIN list |-> list[i].id]

\* list `now` holds the items of `before` in the same order, after at most one
\* new item, which was created later than all of them
KeptNewestFirst(before, now) ==
  \/ IdsOf(now) = IdsOf(before)
  \/ /\ now # << >>
     /\ IdsOf(Tail(now)) = IdsOf(before)
     /\ \A i \in DOMAIN before : before[i].id < now[1].id

NewestFirst(list) ==
  \A i, j \in DOMAIN list : i < j => list[i].id > list[j].id

ArgumentsBefore(p) == IF p \in DOMAIN pre.args THEN pre.args[p] ELSE << >>

\* C14: a call removes no post and no argument and reorders none: each list
\* is the list before the call, possibly after one new item put at its front;
\* the item createPost / createArgument made is the first of its list; so
\* every list is ordered newest-first at all times.
C14_NeverDeletedNewestFirst ==
  /\ KeptNewestFirst(pre.posts, posts)
  /\ DOMAIN pre.args \subseteq DOMAIN args
  /\ \A p \in DOMAIN args : KeptNewestFirst(ArgumentsBefore(p), args[p])
  /\ NewestFirst(posts)
  /\ \A p \in DOMAIN args : NewestFirst(args[p])
  /\ last.op = "createPost" =>
       /\ Len(posts) = Len(pre.posts) + 1
       /\ posts[1].id = pre.seq + 1
       /\ ~last.threw => last.ret = << posts[1].id >>
  /\ last.op = "createArgument" =>
       /\ Len(args[last.id]) = Len(ArgumentsBefore(last.id)) + 1
       /\ last.ret = << args[last.id][1] >>

\* an argument was just added to a post that already had one
C14_Witness ==
  /\ last.op = "createArgument"
  /\ Len(posts) = 1
  /\ last.id = posts[1].id
  /\ Len(ArgumentsBefore(last.id)) = 1
  /\ Len(args[last.id]) = 2

\* a post was just added to a store that already had two
C14_WitnessPosts ==
  /\ last.op = "createPost"
  /\ Len(pre.posts) = 2
  /\ Len(posts) = 3

\* the post of the state before the call that is now at index i
PostBefore(i) == pre.posts[i - (Len(posts) - Len(pre.posts))]

ArgumentCounters(p) == << p.argCount, p.forCount, p.againstCount >>

\* C15: vote, toggleSteelman, setCurrentPost and the reads leave the posts as
\* they were; only createArgument changes the argument counters of a post
\* that existed before the call and only declareMindChange its mindChanges;
\* declareMindChange on a stored post adds exactly one to that post's
\* mindChanges and changes nothing else in the posts, arguments, votes and
\* tags; on an unknown id it changes nothing at all.
C15_PostCountersFrame ==
  /\ last.op \in {"vote", "toggleSteelman", "setCurrentPost"} \cup ReadOps =>
       posts = pre.posts
  /\ \A i \in DOMAIN posts :
       i > Len(posts) - Len(pre.posts) =>
         /\ ArgumentCounters(posts[i]) # ArgumentCounters(PostBefore(i)) =>
              last.op = "createArgument"
         /\ posts[i].mindChanges # PostBefore(i).mindChanges =>
              last.op = "declareMindChange"
  /\ last.op = "declareMindChange" =>
       /\ args = pre.args
       /\ votes = pre.votes
       /\ allTags = pre.allTags
       /\ IF FindPost(pre.posts, last.id) # 0
            THEN posts = [pre.posts EXCEPT ![FindPost(pre.posts, last.id)].mindChanges = @ + 1]
            ELSE posts = pre.posts /\ ls = pre.ls

\* a mind change was just declared on one of two posts, with an argument stored
C15_Witness ==
  /\ last.op = "declareMindChange"
  /\ Len(posts) = 2
  /\ last.id \in PostIds
  /\ ArgIds # {}

\* a mind change was just declared on an id no post has, with a post stored
C15_WitnessUnknown ==
  /\ last.op = "declareMindChange"
  /\ last.id \notin PostIds
  /\ posts # << >>

\* C16: every tag of the vocabulary before a call, in particular every
\* seeded default, is in the vocabulary after it, at the same place; a call
\* other than createPost leaves the vocabulary as it was.
C16_VocabularyNeverShrinks ==
  /\ Len(pre.allTags) <= Len(allTags)
  /\ SubSeq(allTags, 1, Len(pre.allTags)) = pre.allTags
  /\ SubSeq(allTags, 1, Len(DefaultTags)) = DefaultTags
  /\ last.op # "createPost" => allTags = pre.allTags

\* a post just added a tag to a vocabulary that already held a tag a post
\* had added
C16_Witness ==
  /\ last.op = "createPost"
  /\ Len(pre.allTags) > Len(DefaultTags)
  /\ Len(allTags) > Len(pre.allTags)

\* C18: every stored argument has a vote record under its id, which is
\* up=0, down=0, no vote when the argument has just been created; getVotes
\* changes neither the votes nor any persisted entry, and returns the record
\* of the id, or the zero/none record when the id has none.
C18_EveryArgumentHasVoteRecord ==
  /\ ArgIds \subseteq DOMAIN votes
  /\ \A a \in ArgIds \ SnapArgIds(pre) : votes[a] = ZeroVote
  /\ last.op = "getVotes" =>
       /\ votes = pre.votes
       /\ ls = pre.ls
       /\ last.ret = << IF last.id \in DOMAIN pre.votes THEN pre.votes[last.id]
                        ELSE ZeroVote >>

\* getVotes was just called with an id that has no record, while an argument
\* with a vote cast on it is stored
C18_Witness ==
  /\ last.op = "getVotes"
  /\ last.id \notin DOMAIN votes
  /\ \E a \in ArgIds : votes[a] # ZeroVote

\* C19 as stated: every stored argument is in the list of a stored post and
\* every vote record is under the id of a stored argument; createArgument
\* with a postId no post has, and vote with an argId no argument has, leave
\* the arguments and the votes as they were.
C19_NoOrphans ==
  /\ \A p \in DOMAIN args : args[p] # << >> => p \in PostIds
  /\ DOMAIN votes \subseteq ArgIds
  /\ (last.op = "createArgument" /\ FindPost(pre.posts, last.id) = 0) =>
       args = pre.args /\ votes = pre.votes
  /\ (last.op = "vote" /\ last.id \notin SnapArgIds(pre)) =>
       votes = pre.votes

Collection(k) ==
  CASE k = POSTS_KEY -> posts
    [] k = ARGS_KEY  -> args
    [] k = TAGS_KEY  -> allTags
    [] k = VOTES_KEY -> votes

Default(k) ==
  CASE k = POSTS_KEY -> << >>
    [] k = ARGS_KEY  -> EmptyMap
    [] k = TAGS_KEY  -> DefaultTags
    [] k = VOTES_KEY -> EmptyMap

\* the entry is the text the store wrote for a collection
WrittenByStore(item) == Len(item) = 1

\* C17 as stated: after a start-up each collection is its persisted entry
\* when the store wrote that entry, and the default when the entry is absent
\* or is any other text; a start-up after calls gives back the collections
\* the store had.
C17_LoadFallsBackToDefault ==
  /\ last.op = "load" =>
       \A k \in CollectionKeys :
         IF WrittenByStore(ls[k]) THEN Collection(k) = ls[k][1]
                                  ELSE Collection(k) = Default(k)
  /\ last.op = "load" =>
       /\ posts = pre.posts
       /\ args = pre.args
       /\ allTags = pre.allTags
       /\ votes = pre.votes

====
